---- MODULE Spec2Model ----
(***************************************************************************)
(* Model of simple-perm-manager: the action codec (deserialize_actions,    *)
(* serialize_actions), Permission and PermissionManager.                   *)
(*                                                                         *)
(* A Rust String is a sequence of one-character strings, so that joining   *)
(* with the divider and splitting on it are computed, not assumed.         *)
(* An Option<T> or the outcome of a call that may panic is a set with at   *)
(* most one element: {} is None / no value, {x} is Some(x) / the value.    *)
(***************************************************************************)
EXTENDS Naturals, Sequences, FiniteSets, TLC

(***************************************************************************)
(* Program constants                                                       *)
(***************************************************************************)
MAX_JSON_DEPTH_ALLOWED == 20
ACTION_DIVIDER == ":"

(***************************************************************************)
(* Bounds of the model                                                     *)
(***************************************************************************)
\* levels of groups nested below the root in the enumerated JSON trees
MaxTreeDepth == 1
\* segments of the enumerated action strings
MaxSegments == 2
\* elements of the enumerated action sets given to serialize_actions
MaxSetSize == 2
\* managers a run creates
MaxManagers == 2

(***************************************************************************)
(* Strings                                                                 *)
(***************************************************************************)
EmptyStr == << >>

\* the characters used, in byte order ( '.' = 0x2E < ':' = 0x3A < '_' = 0x5F < 'a' )
ByteOrder ==
    <<".", ":", "_", "a", "b", "c", "d", "e", "f", "g", "h", "i", "j", "k", "l", "m",
      "n", "o", "p", "q", "r", "s", "t", "u", "v", "w", "x", "y", "z">>

CharRank(c) == CHOOSE i \in 1..Len(ByteOrder) : ByteOrder[i] = c

\* String's Ord: lexicographic by bytes
RECURSIVE StrLess(_, _)
StrLess(s, t) ==
    IF t = EmptyStr THEN FALSE
    ELSE IF s = EmptyStr THEN TRUE
    ELSE IF CharRank(Head(s)) # CharRank(Head(t))
         THEN CharRank(Head(s)) < CharRank(Head(t))
         ELSE StrLess(Tail(s), Tail(t))

\* format!("{}{}{}", prefix, ACTION_DIVIDER, key)
format(prefix, key) == prefix \o <<ACTION_DIVIDER>> \o key

\* str::split(ACTION_DIVIDER): the parts between dividers, empty parts kept
RECURSIVE split(_)
split(s) ==
    IF \A i \in 1..Len(s) : s[i] # ACTION_DIVIDER
    THEN <<s>>
    ELSE LET i == CHOOSE j \in 1..Len(s) :
                      /\ s[j] = ACTION_DIVIDER
                      /\ \A k \in 1..(j - 1) : s[k] # ACTION_DIVIDER
         IN  <<SubSeq(s, 1, i - 1)>> \o split(SubSeq(s, i + 1, Len(s)))

(***************************************************************************)
(* serde_json::Value and serde_json::Map                                   *)
(***************************************************************************)
EmptyMap == << >>

\* Value::Bool
Bool(v) == [kind |-> "bool", b |-> v, map |-> EmptyMap]

\* Value::Object
Object(m) == [kind |-> "obj", b |-> FALSE, map |-> m]

\* Value::Null, Number, String, Array: neither an object nor a boolean
NotObjNorBool == [kind |-> "other", b |-> FALSE, map |-> EmptyMap]

\* Map::insert(key, value): adds the key or replaces its value
insert(m, key, value) ==
    [k \in (DOMAIN m) \cup {key} |-> IF k = key THEN value ELSE m[k]]

\* Map::into_iter: the keys in the map's order (sorted by key)
RECURSIVE SortedKeys(_)
SortedKeys(ks) ==
    IF ks = {} THEN << >>
    ELSE LET first == CHOOSE k \in ks : \A o \in ks \ {k} : StrLess(k, o)
         IN  <<first>> \o SortedKeys(ks \ {first})

into_iter(m) == SortedKeys(DOMAIN m)

(***************************************************************************)
(* Outcome of a call: panic names the failure ("none" when it returned),   *)
(* ret holds the returned value, and is empty when the call panicked.      *)
(***************************************************************************)
Returned(v) == [panic |-> "none", ret |-> {v}]
Panicked(why) == [panic |-> why, ret |-> {}]

(***************************************************************************)
(* deserialize_actions                                                     *)
(***************************************************************************)
RECURSIVE deserialize_actions(_, _, _)
RECURSIVE deserialize_loop(_, _, _, _, _)

\* faulty variant: a value that is neither an object nor a boolean is skipped
deserialize_loop_skipping(current_depth, prefix, json_obj, keys, actions) ==
    IF keys = << >> THEN Returned(actions)
    ELSE LET key == Head(keys)
             value == json_obj[key]
             action_value == IF prefix = EmptyStr THEN key ELSE format(prefix, key)
         IN  CASE value.kind = "obj" ->
                    LET sub == deserialize_actions(current_depth + 1, action_value, value.map)
                    IN  IF sub.panic # "none" THEN sub
                        ELSE deserialize_loop(current_depth, prefix, json_obj, Tail(keys),
                                 actions \cup (CHOOSE s \in sub.ret : TRUE))
               [] value.kind = "bool" ->
                    deserialize_loop(current_depth, prefix, json_obj, Tail(keys),
                        IF value.b THEN actions \cup {action_value} ELSE actions)
               [] OTHER -> deserialize_loop(current_depth, prefix, json_obj, Tail(keys), actions)

\* the body of `for (key, value) in json_obj.into_iter()`, keys being the
\* entries still to visit and actions the set accumulated so far
deserialize_loop(current_depth, prefix, json_obj, keys, actions) ==
    IF keys = << >> THEN Returned(actions)
    ELSE LET key == Head(keys)
             value == json_obj[key]
             action_value == IF prefix = EmptyStr THEN key ELSE format(prefix, key)
         IN  CASE value.kind = "obj" ->
                    LET sub == deserialize_actions(current_depth + 1, action_value, value.map)
                    IN  IF sub.panic # "none" THEN sub
                        ELSE deserialize_loop(current_depth, prefix, json_obj, Tail(keys),
                                 actions \cup (CHOOSE s \in sub.ret : TRUE))
               [] value.kind = "bool" ->
                    deserialize_loop(current_depth, prefix, json_obj, Tail(keys),
                        IF value.b THEN actions \cup {action_value} ELSE actions)
               [] OTHER -> Panicked("malformed")

\* faulty variant: the depth limit itself is still accepted
deserialize_actions_above_limit(current_depth, prefix, json_obj) ==
    IF current_depth > MAX_JSON_DEPTH_ALLOWED
    THEN Panicked("too_deep")
    ELSE deserialize_loop(current_depth, prefix, json_obj, into_iter(json_obj), {})

deserialize_actions(current_depth, prefix, json_obj) ==
    IF current_depth >= MAX_JSON_DEPTH_ALLOWED
    THEN Panicked("too_deep")
    ELSE deserialize_loop(current_depth, prefix, json_obj, into_iter(json_obj), {})

(***************************************************************************)
(* serialize_actions                                                       *)
(***************************************************************************)
\* the map that map_pointer points to: map_pointer is the path of keys from
\* the root map to it
RECURSIVE deref(_, _)
deref(map, map_pointer) ==
    IF map_pointer = << >> THEN map
    ELSE deref(map[Head(map_pointer)].map, Tail(map_pointer))

\* map_pointer.insert(key, value) seen from the root map
RECURSIVE insert_at(_, _, _, _)
insert_at(map, map_pointer, key, value) ==
    IF map_pointer = << >> THEN insert(map, key, value)
    ELSE insert(map, Head(map_pointer),
                Object(insert_at(map[Head(map_pointer)].map, Tail(map_pointer), key, value)))

\* `obj == &objects[objects.len() - 1]`: the comparison is of the two strings
is_last_object(objects, i) == objects[i] = objects[Len(objects)]

\* the body of `for obj in &objects`, i being the position of obj
RECURSIVE serialize_objects(_, _, _, _)
serialize_objects(map, map_pointer, objects, i) ==
    IF i > Len(objects) THEN Returned(map)
    ELSE LET obj == objects[i]
             here == deref(map, map_pointer)
         IN  IF is_last_object(objects, i)
             THEN serialize_objects(insert_at(map, map_pointer, obj, Bool(TRUE)),
                                    map_pointer, objects, i + 1)
             ELSE IF obj \in DOMAIN here
             THEN IF here[obj].kind = "obj"
                  THEN serialize_objects(map, Append(map_pointer, obj), objects, i + 1)
                  ELSE Panicked("conflicting_path")
             ELSE serialize_objects(insert_at(map, map_pointer, obj, Object(EmptyMap)),
                                    Append(map_pointer, obj), objects, i + 1)

\* the body of `for action in actions.iter()`, order being the sequence in
\* which the HashSet yields its elements
RECURSIVE serialize_loop(_, _)
serialize_loop(map, order) ==
    IF order = << >> THEN Returned(map)
    ELSE LET r == serialize_objects(map, << >>, split(Head(order)), 1)
         IN  IF r.panic # "none" THEN r
             ELSE serialize_loop(CHOOSE m \in r.ret : TRUE, Tail(order))

serialize_actions(order) == serialize_loop(EmptyMap, order)

(***************************************************************************)
(* JSON text.  A document is kept as what serde_json reads from it:        *)
(* syntax_ok says whether the text is valid JSON, value is the Value it    *)
(* denotes.                                                                *)
(***************************************************************************)
JsonText(v) == [syntax_ok |-> TRUE, value |-> v]
NotJson == [syntax_ok |-> FALSE, value |-> NotObjNorBool]

\* serde_json::from_str: the Value, or nothing when the text is not JSON
from_str(doc) == IF doc.syntax_ok THEN {doc.value} ELSE {}

\* Value::to_string
to_string(v) == JsonText(v)

(***************************************************************************)
(* Permission                                                              *)
(***************************************************************************)
\* struct Permission { actions, manager_id }
Permission(actions, manager_id) == [actions |-> actions, manager_id |-> manager_id]

\* Permission::from_actions (PermissionManager calls this constructor under
\* the name from_actions_and_uuid)
from_actions(actions, manager_id) == Permission(actions, manager_id)

\* Permission::from_json (PermissionManager: from_json_and_uuid)
\* faulty variant: a root that is not an object is read as an empty tree
from_json_any_root(actions_json, manager_id) ==
    LET actions_value == from_str(actions_json)
    IN  IF actions_value = {} THEN Panicked("invalid_json")
        ELSE LET v == CHOOSE x \in actions_value : TRUE
                 actions_generated == deserialize_actions(0, EmptyStr, v.map)
             IN  IF actions_generated.panic # "none"
                 THEN Panicked(actions_generated.panic)
                 ELSE Returned(Permission(CHOOSE a \in actions_generated.ret : TRUE,
                                          manager_id))

from_json(actions_json, manager_id) ==
    LET actions_value == from_str(actions_json)
    IN  IF actions_value = {} THEN Panicked("invalid_json")
        ELSE LET v == CHOOSE x \in actions_value : TRUE
             IN  IF v.kind = "obj"
                 THEN LET actions_generated == deserialize_actions(0, EmptyStr, v.map)
                      IN  IF actions_generated.panic # "none"
                          THEN Panicked(actions_generated.panic)
                          ELSE Returned(Permission(CHOOSE a \in actions_generated.ret : TRUE,
                                                   manager_id))
                 ELSE Panicked("malformed")

get_actions(self) == self.actions

\* Permission::to_json; order is the sequence in which the HashSet of
\* actions yields its elements
to_json(self, order) ==
    LET map == serialize_actions(order)
    IN  IF map.panic # "none" THEN Panicked(map.panic)
        ELSE Returned(to_string(Object(CHOOSE m \in map.ret : TRUE)))

is_managed(self) == self.manager_id # {}

\* faulty variant: an unmanaged Permission is taken to fit any manager
has_same_manager_or_unmanaged(self, other) ==
    self.manager_id = other.manager_id \/ other.manager_id = {}

\* faulty variant: being managed is compared, not the manager
has_same_manager_both_managed(self, other) == is_managed(self) = is_managed(other)

\* faulty variant: two unmanaged Permissions do not count as the same manager
has_same_manager_managed_only(self, other) ==
    is_managed(self) /\ self.manager_id = other.manager_id

has_same_manager(self, other) == self.manager_id = other.manager_id

\* faulty variant: intersection in place of union
union_of_common(self, other) ==
    IF ~has_same_manager(self, other)
    THEN Panicked("incompatible_scope")
    ELSE LET actions_union == get_actions(self) \cap get_actions(other)
         IN  Returned(from_actions(actions_union, self.manager_id))

\* faulty variant: the result is built without the manager
union_unscoped(self, other) ==
    IF ~has_same_manager(self, other)
    THEN Panicked("incompatible_scope")
    ELSE LET actions_union == get_actions(self) \cup get_actions(other)
         IN  Returned(from_actions(actions_union, {}))

\* faulty variant: the actions held by exactly one of the two
union_of_unshared(self, other) ==
    IF ~has_same_manager(self, other)
    THEN Panicked("incompatible_scope")
    ELSE LET actions_union == (get_actions(self) \ get_actions(other))
                              \cup (get_actions(other) \ get_actions(self))
         IN  Returned(from_actions(actions_union, self.manager_id))

union(self, other) ==
    IF ~has_same_manager(self, other)
    THEN Panicked("incompatible_scope")
    ELSE LET actions_union == get_actions(self) \cup get_actions(other)
         IN  Returned(from_actions(actions_union, self.manager_id))

\* faulty variant: the operands of the set difference are swapped
difference_reversed(self, other) ==
    IF ~has_same_manager(self, other)
    THEN Panicked("incompatible_scope")
    ELSE LET actions_diff == get_actions(other) \ get_actions(self)
         IN  Returned(from_actions(actions_diff, self.manager_id))

\* faulty variant: nothing is removed
difference_keeping_all(self, other) ==
    IF ~has_same_manager(self, other)
    THEN Panicked("incompatible_scope")
    ELSE Returned(from_actions(get_actions(self), self.manager_id))

difference(self, other) ==
    IF ~has_same_manager(self, other)
    THEN Panicked("incompatible_scope")
    ELSE LET actions_diff == get_actions(self) \ get_actions(other)
         IN  Returned(from_actions(actions_diff, self.manager_id))

\* faulty variant: is_subset in place of is_superset
contains_subset(self, other) ==
    IF ~has_same_manager(self, other)
    THEN Panicked("incompatible_scope")
    ELSE Returned(get_actions(self) \subseteq get_actions(other))

\* faulty variant: sharing an action in place of is_superset
contains_some(self, other) ==
    IF ~has_same_manager(self, other)
    THEN Panicked("incompatible_scope")
    ELSE Returned(get_actions(self) \cap get_actions(other) # {})

contains(self, other) ==
    IF ~has_same_manager(self, other)
    THEN Panicked("incompatible_scope")
    ELSE Returned(get_actions(other) \subseteq get_actions(self))

\* faulty variant: a group that holds an action of the set counts as held
contains_action_or_group(self, action_str) ==
    \E x \in get_actions(self) :
        \/ x = action_str
        \/ /\ Len(x) > Len(action_str)
           /\ SubSeq(x, 1, Len(action_str) + 1) = action_str \o <<ACTION_DIVIDER>>

contains_action(self, action_str) == action_str \in get_actions(self)

(***************************************************************************)
(* PermissionManager                                                       *)
(***************************************************************************)
\* the version 4 identifiers of the model
V4Uuids == 1..MaxManagers

\* Uuid::new_v4(), used being the values it returned before.  A random
\* 122-bit value: taken to differ from every earlier one, and named by its
\* rank among the values returned.
new_v4(used) == CHOOSE u \in V4Uuids \ used : \A o \in V4Uuids \ used : u <= o

\* struct PermissionManager { universe, id }
PermissionManager(universe, id) == [universe |-> universe, id |-> id]

\* faulty variant: the universe is built without the manager's id
manager_from_actions_unscoped(universe_actions, id) ==
    PermissionManager(from_actions(universe_actions, {}), id)

\* PermissionManager::from_actions, id being the value of Uuid::new_v4()
manager_from_actions(universe_actions, id) ==
    PermissionManager(from_actions(universe_actions, {id}), id)

\* PermissionManager::from_json, id being the value of Uuid::new_v4()
manager_from_json(universe_actions_json, id) ==
    LET universe == from_json(universe_actions_json, {id})
    IN  IF universe.panic # "none" THEN Panicked(universe.panic)
        ELSE Returned(PermissionManager(CHOOSE u \in universe.ret : TRUE, id))

get_universe(self) == self.universe

\* faulty variant: the universe's contains alone
validate_perm_unguarded(self, perm) == contains(self.universe, perm)

\* `a && b` evaluates b only when a is true
validate_perm(self, perm) ==
    IF has_same_manager(self.universe, perm)
    THEN contains(self.universe, perm)
    ELSE Returned(FALSE)

perm_from_actions(self, actions) ==
    LET perm == from_actions(actions, {self.id})
        valid == validate_perm(self, perm)
    IN  IF valid.panic # "none" THEN Panicked(valid.panic)
        ELSE IF valid.ret # {TRUE} THEN Panicked("actions_not_in_universe")
        ELSE Returned(perm)

\* faulty variant: the Permission is returned without being validated
perm_from_json_unchecked(self, actions_json) == from_json(actions_json, {self.id})

perm_from_json(self, actions_json) ==
    LET made == from_json(actions_json, {self.id})
    IN  IF made.panic # "none" THEN Panicked(made.panic)
        ELSE LET perm == CHOOSE p \in made.ret : TRUE
                 valid == validate_perm(self, perm)
             IN  IF valid.panic # "none" THEN Panicked(valid.panic)
                 ELSE IF valid.ret # {TRUE} THEN Panicked("actions_not_in_universe")
                 ELSE Returned(perm)

(***************************************************************************)
(* State                                                                   *)
(***************************************************************************)
VARIABLES
    managers,   \* the PermissionManagers created so far, in creation order
    held,       \* the caller's Permission variables: name -> None or Some(p)
    last,       \* the last call on a Permission or a manager, with its outcome
    codec,      \* the codec run: its input, the last call and its outcome
    calls,      \* the calls of the concurrent callers on the shared values
    walk        \* the call stack of a deserialize_actions call run step by step

\* no caller has called
NoCalls == << >>

\* no deserialize_actions call is being run step by step
NoWalk == [status |-> "none"]

vars == <<managers, held, last, codec, calls, walk>>

(***************************************************************************)
(* Inputs of the Permission / PermissionManager runs                       *)
(***************************************************************************)
\* the caller's Permission variables
Slots == {"p", "q"}

\* the action strings callers use
ActionPool == {<<"a">>, <<"b">>}

\* JSON objects whose values are all booleans, over the keys ks
FlatMaps(ks) == UNION {[D -> {Bool(TRUE), Bool(FALSE)}] : D \in SUBSET ks}

\* the documents callers hand to the JSON constructors
ManagerDocs ==
    {NotJson, JsonText(Bool(TRUE))}
    \cup {JsonText(Object(m)) :
             m \in {f \in FlatMaps(ActionPool) :
                       DOMAIN f # {} => (<<"a">> \in DOMAIN f /\ f[<<"a">>].b)}}

NoCall ==
    [op |-> "none", mi |-> 0, a |-> {}, b |-> {}, acts |-> {}, id |-> {}, doc |-> {},
     panic |-> "none", retPerm |-> {}, retBool |-> {}]

UsedUuids == {managers[i].id : i \in DOMAIN managers}

\* What the caller can read of identifiers: Permission and PermissionManager
\* derive Debug, which prints manager_id / id of every value the caller holds.
ObservableUuids ==
    UsedUuids \cup UNION {p.manager_id : p \in UNION {held[s] : s \in Slots}}

\* the manager_id arguments a caller can pass to Permission's constructors
CallerScopes == {{}} \cup {{u} : u \in ObservableUuids}

(***************************************************************************)
(* Operations on managers and Permissions.  A call is made once the        *)
(* outcome of the call before it has been read (last = NoCall).            *)
(***************************************************************************)
\* let m = PermissionManager::from_actions(U)
ManagerFromActions ==
    /\ last = NoCall
    /\ Len(managers) < MaxManagers
    /\ \E U \in SUBSET ActionPool :
          /\ managers' = Append(managers, manager_from_actions(U, new_v4(UsedUuids)))
          /\ last' = [NoCall EXCEPT !.op = "manager_from_actions", !.acts = {U},
                                    !.mi = Len(managers) + 1]
    /\ UNCHANGED <<held, codec, calls, walk>>

\* let m = PermissionManager::from_json(doc)
ManagerFromJson ==
    /\ last = NoCall
    /\ Len(managers) < MaxManagers
    /\ \E doc \in ManagerDocs :
          LET made == manager_from_json(doc, new_v4(UsedUuids))
          IN  /\ managers' = IF made.panic = "none"
                             THEN Append(managers, CHOOSE m \in made.ret : TRUE)
                             ELSE managers
              /\ last' = [NoCall EXCEPT !.op = "manager_from_json", !.doc = {doc},
                                        !.panic = made.panic,
                                        !.mi = IF made.panic = "none"
                                               THEN Len(managers) + 1 ELSE 0]
    /\ UNCHANGED <<held, codec, calls, walk>>

\* held[s] = managers[i].get_universe()
GetUniverse ==
    /\ last = NoCall
    /\ \E i \in DOMAIN managers, s \in Slots :
          LET u == get_universe(managers[i])
          IN  /\ held' = [held EXCEPT ![s] = {u}]
              /\ last' = [NoCall EXCEPT !.op = "get_universe", !.mi = i, !.retPerm = {u}]
    /\ UNCHANGED <<managers, codec, calls, walk>>

\* managers[i].validate_perm(&held[s])
ValidatePerm ==
    /\ last = NoCall
    /\ \E i \in DOMAIN managers, s \in Slots :
          /\ held[s] # {}
          /\ LET perm == CHOOSE p \in held[s] : TRUE
                 r == validate_perm(managers[i], perm)
             IN  last' = [NoCall EXCEPT !.op = "validate_perm", !.mi = i, !.a = {perm},
                                        !.panic = r.panic, !.retBool = r.ret]
    /\ UNCHANGED <<managers, held, codec, calls, walk>>

\* faulty variant: the actions asked for are added to the universe
PermFromActionsGrowingUniverse ==
    /\ last = NoCall
    /\ \E i \in DOMAIN managers, X \in SUBSET ActionPool, s \in Slots :
          LET r == perm_from_actions(managers[i], X)
          IN  /\ held' = IF r.panic = "none" THEN [held EXCEPT ![s] = r.ret] ELSE held
              /\ last' = [NoCall EXCEPT !.op = "perm_from_actions", !.mi = i, !.acts = {X},
                                        !.panic = r.panic, !.retPerm = r.ret]
              /\ managers' = [managers EXCEPT ![i].universe.actions = @ \cup X]
    /\ UNCHANGED <<codec, calls, walk>>

\* held[s] = managers[i].perm_from_actions(X)
PermFromActions ==
    /\ last = NoCall
    /\ \E i \in DOMAIN managers, X \in SUBSET ActionPool, s \in Slots :
          LET r == perm_from_actions(managers[i], X)
          IN  /\ held' = IF r.panic = "none" THEN [held EXCEPT ![s] = r.ret] ELSE held
              /\ last' = [NoCall EXCEPT !.op = "perm_from_actions", !.mi = i, !.acts = {X},
                                        !.panic = r.panic, !.retPerm = r.ret]
    /\ UNCHANGED <<managers, codec, calls, walk>>

\* held[s] = managers[i].perm_from_json(doc)
PermFromJson ==
    /\ last = NoCall
    /\ \E i \in DOMAIN managers, doc \in ManagerDocs, s \in Slots :
          LET r == perm_from_json(managers[i], doc)
          IN  /\ held' = IF r.panic = "none" THEN [held EXCEPT ![s] = r.ret] ELSE held
              /\ last' = [NoCall EXCEPT !.op = "perm_from_json", !.mi = i, !.doc = {doc},
                                        !.panic = r.panic, !.retPerm = r.ret]
    /\ UNCHANGED <<managers, codec, calls, walk>>

\* held[s] = Permission::from_actions(&X, &id)
FromActions ==
    /\ last = NoCall
    /\ \E X \in SUBSET ActionPool, id \in CallerScopes, s \in Slots :
          LET perm == from_actions(X, id)
          IN  /\ held' = [held EXCEPT ![s] = {perm}]
              /\ last' = [NoCall EXCEPT !.op = "from_actions", !.acts = {X}, !.id = id,
                                        !.retPerm = {perm}]
    /\ UNCHANGED <<managers, codec, calls, walk>>

\* held[t] = held[s].clone()
Clone ==
    /\ last = NoCall
    /\ \E s \in Slots, t \in Slots :
          /\ held[s] # {}
          /\ held' = [held EXCEPT ![t] = held[s]]
          /\ last' = [NoCall EXCEPT !.op = "clone", !.a = held[s], !.retPerm = held[s]]
    /\ UNCHANGED <<managers, codec, calls, walk>>

\* held[r] = held[s].union(&held[t])
Union ==
    /\ last = NoCall
    /\ \E s \in Slots, t \in Slots, r \in Slots :
          /\ held[s] # {} /\ held[t] # {}
          /\ LET self == CHOOSE p \in held[s] : TRUE
                 other == CHOOSE p \in held[t] : TRUE
                 res == union(self, other)
             IN  /\ held' = IF res.panic = "none" THEN [held EXCEPT ![r] = res.ret] ELSE held
                 /\ last' = [NoCall EXCEPT !.op = "union", !.a = {self}, !.b = {other},
                                           !.panic = res.panic, !.retPerm = res.ret]
    /\ UNCHANGED <<managers, codec, calls, walk>>

\* held[r] = held[s].difference(&held[t])
Difference ==
    /\ last = NoCall
    /\ \E s \in Slots, t \in Slots, r \in Slots :
          /\ held[s] # {} /\ held[t] # {}
          /\ LET self == CHOOSE p \in held[s] : TRUE
                 other == CHOOSE p \in held[t] : TRUE
                 res == difference(self, other)
             IN  /\ held' = IF res.panic = "none" THEN [held EXCEPT ![r] = res.ret] ELSE held
                 /\ last' = [NoCall EXCEPT !.op = "difference", !.a = {self}, !.b = {other},
                                           !.panic = res.panic, !.retPerm = res.ret]
    /\ UNCHANGED <<managers, codec, calls, walk>>

\* held[s].contains(&held[t])
Contains ==
    /\ last = NoCall
    /\ \E s \in Slots, t \in Slots :
          /\ held[s] # {} /\ held[t] # {}
          /\ LET self == CHOOSE p \in held[s] : TRUE
                 other == CHOOSE p \in held[t] : TRUE
                 res == contains(self, other)
             IN  last' = [NoCall EXCEPT !.op = "contains", !.a = {self}, !.b = {other},
                                        !.panic = res.panic, !.retBool = res.ret]
    /\ UNCHANGED <<managers, held, codec, calls, walk>>

\* held[s].has_same_manager(&held[t])
HasSameManager ==
    /\ last = NoCall
    /\ \E s \in Slots, t \in Slots :
          /\ held[s] # {} /\ held[t] # {}
          /\ LET self == CHOOSE p \in held[s] : TRUE
                 other == CHOOSE p \in held[t] : TRUE
             IN  last' = [NoCall EXCEPT !.op = "has_same_manager", !.a = {self}, !.b = {other},
                                        !.retBool = {has_same_manager(self, other)}]
    /\ UNCHANGED <<managers, held, codec, calls, walk>>

\* the caller has read the outcome of the last call and goes on
CallerContinues ==
    /\ last # NoCall
    /\ last' = NoCall
    /\ UNCHANGED <<managers, held, codec, calls, walk>>

(***************************************************************************)
(* Inputs of the codec runs                                                *)
(***************************************************************************)
\* keys of the enumerated trees
TreeKeys == {EmptyStr, <<"a">>}

\* the JSON objects over TreeKeys with groups nested at most d levels
RECURSIVE TreeMaps(_)
TreeMaps(d) ==
    LET values == {Bool(TRUE), Bool(FALSE)} \cup
                  (IF d = 0 THEN {} ELSE {Object(m) : m \in TreeMaps(d - 1)})
    IN  UNION {[D -> values] : D \in SUBSET TreeKeys}

\* n objects nested under the key "a", the innermost holding inner
RECURSIVE Chain(_, _)
Chain(n, inner) ==
    IF n = 0 THEN inner ELSE [k \in {<<"a">>} |-> Object(Chain(n - 1, inner))]

ChainTrees ==
    {Chain(n, inner) : n \in 0..(MAX_JSON_DEPTH_ALLOWED + 1),
                       inner \in {EmptyMap, [k \in {<<"b">>} |-> Bool(TRUE)]}}

\* trees in which one value is neither an object nor a boolean, at the root
\* or in a group below it
MalformedTrees ==
    {insert(t, k, NotObjNorBool) : t \in TreeMaps(MaxTreeDepth), k \in TreeKeys}
    \cup {insert(t, k, Object(insert(u, j, NotObjNorBool)))
             : t \in TreeMaps(0), u \in TreeMaps(0), k \in TreeKeys, j \in TreeKeys}

\* chains with such a value at the bottom, or beside the chain at the root
\* (under a key visited before the chain, or after it)
MalformedChains ==
    {Chain(n, [k \in {<<"b">>} |-> NotObjNorBool]) : n \in 0..(MAX_JSON_DEPTH_ALLOWED + 1)}
    \cup {insert(c, k, NotObjNorBool) : c \in ChainTrees, k \in {EmptyStr, <<"b">>}}

\* the tree and the action strings of the codec's first test
Key_building == <<"b", "u", "i", "l", "d", "i", "n", "g">>
Key_view == <<"v", "i", "e", "w">>
Key_meter == <<"m", "e", "t", "e", "r">>
Key_create == <<"c", "r", "e", "a", "t", "e">>
Key_user == <<"u", "s", "e", "r">>
Key_edit == <<"e", "d", "i", "t">>
Key_simple_action == <<"s", "i", "m", "p", "l", "e", "_", "a", "c", "t", "i", "o", "n">>

DocumentedTree ==
    [k \in {Key_building, Key_user, Key_simple_action} |->
        IF k = Key_building
        THEN Object([j \in {Key_view, Key_meter} |->
                        IF j = Key_view THEN Bool(TRUE)
                        ELSE Object([i \in {Key_create} |-> Bool(TRUE)])])
        ELSE IF k = Key_user THEN Object([j \in {Key_edit} |-> Bool(TRUE)])
        ELSE Bool(TRUE)]

DocumentedActions ==
    {Key_building \o <<".">> \o Key_view,
     Key_building \o <<".">> \o Key_meter \o <<".">> \o Key_create,
     Key_user \o <<".">> \o Key_edit,
     Key_simple_action}

\* current_depth values the chains are decoded from (a u8)
StartDepths == 0..(MAX_JSON_DEPTH_ALLOWED + 1) \cup {255}

\* segments of the enumerated action strings
SegPool == {EmptyStr, <<"a">>, <<"b">>}

\* segments joined by the divider
RECURSIVE Join(_)
Join(segs) ==
    IF Len(segs) = 1 THEN segs[1] ELSE format(Join(SubSeq(segs, 1, Len(segs) - 1)), segs[Len(segs)])

ActionStrings == {Join(segs) : segs \in UNION {[1..n -> SegPool] : n \in 1..MaxSegments}}

\* the subsets of ActionStrings of at most n elements
RECURSIVE SetsUpTo(_)
SetsUpTo(n) ==
    IF n = 0 THEN {{}}
    ELSE LET smaller == SetsUpTo(n - 1)
         IN  smaller \cup {S \cup {x} : S \in smaller, x \in ActionStrings}

\* the orders in which a HashSet may yield the elements of S
Orders(S) ==
    {o \in [1..Cardinality(S) -> S] : \A i, j \in 1..Cardinality(S) : o[i] = o[j] => i = j}

NoOutcome == [panic |-> "none", ret |-> {}]

CodecIdle ==
    [op |-> "idle", given |-> "none", depth |-> 0, tree |-> {}, acts |-> {}, order |-> << >>,
     doc |-> {}, scope |-> {}, query |-> {}, prev |-> {}, out |-> NoOutcome]

\* manager_id values given to Permission::from_json
DocScopes == {{}} \cup {{u} : u \in V4Uuids}

CodecInputs ==
    {[CodecIdle EXCEPT !.op = "input", !.given = "tree", !.tree = {t}]
        : t \in TreeMaps(MaxTreeDepth)}
    \cup {[CodecIdle EXCEPT !.op = "input", !.given = "tree", !.tree = {t}, !.depth = d]
        : t \in ChainTrees \cup MalformedChains, d \in StartDepths}
    \cup {[CodecIdle EXCEPT !.op = "input", !.given = "tree", !.tree = {t}]
        : t \in MalformedTrees \cup {DocumentedTree}}
    \cup {[CodecIdle EXCEPT !.op = "input", !.given = "set", !.acts = {S}]
        : S \in SetsUpTo(MaxSetSize) \cup {DocumentedActions}}
    \cup {[CodecIdle EXCEPT !.op = "input", !.given = "doc", !.doc = {doc}]
        : doc \in {NotJson, JsonText(Bool(TRUE)), JsonText(NotObjNorBool)}
                  \cup {JsonText(Object(t)) : t \in TreeMaps(MaxTreeDepth)}
                  \cup {JsonText(Object([k \in {<<"a">>} |-> NotObjNorBool]))}}

(***************************************************************************)
(* Codec operations                                                        *)
(***************************************************************************)
\* deserialize_actions(depth, "", &tree) on the given tree
Deserialize ==
    /\ codec.op = "input" /\ codec.given = "tree"
    /\ codec' = [codec EXCEPT !.op = "deserialize",
                     !.out = deserialize_actions(codec.depth, EmptyStr,
                                                 CHOOSE t \in codec.tree : TRUE)]
    /\ UNCHANGED <<managers, held, last, calls, walk>>

\* serialize_actions(&S) on the given set
Serialize ==
    /\ codec.op = "input" /\ codec.given = "set"
    /\ \E order \in Orders(CHOOSE S \in codec.acts : TRUE) :
          codec' = [codec EXCEPT !.op = "serialize", !.order = order,
                                 !.out = serialize_actions(order)]
    /\ UNCHANGED <<managers, held, last, calls, walk>>

\* deserialize_actions(0, "", &map) on the map serialize_actions returned
DeserializeSerialized ==
    /\ codec.op = "serialize" /\ codec.out.panic = "none"
    /\ LET map == CHOOSE m \in codec.out.ret : TRUE
       IN  codec' = [codec EXCEPT !.op = "deserialize", !.tree = {map}, !.depth = 0,
                         !.prev = codec.acts,
                         !.out = deserialize_actions(0, EmptyStr, map)]
    /\ UNCHANGED <<managers, held, last, calls, walk>>

\* Permission::from_json(doc, &manager_id) on the given document
CodecFromJson ==
    /\ codec.op = "input" /\ codec.given = "doc"
    /\ \E manager_id \in DocScopes :
          codec' = [codec EXCEPT !.op = "from_json", !.scope = manager_id,
                        !.out = from_json(CHOOSE d \in codec.doc : TRUE, manager_id)]
    /\ UNCHANGED <<managers, held, last, calls, walk>>

\* the strings a Permission with the actions S is asked about: its own
\* actions and the single segments
QueryStrings(S) == S \cup SegPool

\* Permission::from_actions(&S, &manager_id).contains_action(id) on the given set
CodecContainsAction ==
    /\ codec.op = "input" /\ codec.given = "set"
    /\ LET S == CHOOSE X \in codec.acts : TRUE
       IN  \E manager_id \in {{}, {new_v4({})}}, id \in QueryStrings(S) :
              codec' = [codec EXCEPT !.op = "contains_action", !.scope = manager_id,
                            !.query = {id},
                            !.out = Returned(contains_action(from_actions(S, manager_id), id))]
    /\ UNCHANGED <<managers, held, last, calls, walk>>

\* to_json() of the Permission that from_json returned
CodecToJson ==
    /\ codec.op = "from_json" /\ codec.out.panic = "none"
    /\ LET perm == CHOOSE p \in codec.out.ret : TRUE
       IN  /\ Cardinality(get_actions(perm)) <= MaxSetSize
           /\ \E order \in Orders(get_actions(perm)) :
                 codec' = [codec EXCEPT !.op = "to_json", !.acts = {get_actions(perm)},
                                        !.order = order, !.prev = codec.doc,
                                        !.out = to_json(perm, order)]
    /\ UNCHANGED <<managers, held, last, calls, walk>>

(***************************************************************************)
(* deserialize_actions run call by call: walk.stack holds the active calls *)
(* that got past the depth guard, the innermost last; walk.calling is the  *)
(* call just made, whose guard has not been evaluated yet.                 *)
(***************************************************************************)
\* the largest u8
U8Max == 255

\* faulty variant: no depth is too much
too_much_nesting_never(current_depth) == FALSE

\* `current_depth >= MAX_JSON_DEPTH_ALLOWED`
too_much_nesting(current_depth) == current_depth >= MAX_JSON_DEPTH_ALLOWED

\* `x + y` on u8: the sum when it fits; otherwise the build decides: a panic
\* (overflow checks on) or the sum modulo 256 (overflow checks off)
add_u8(x, y) ==
    IF x + y <= U8Max
    THEN {[overflow |-> FALSE, panic |-> FALSE, value |-> x + y]}
    ELSE {[overflow |-> TRUE, panic |-> TRUE, value |-> 0],
          [overflow |-> TRUE, panic |-> FALSE, value |-> (x + y) % (U8Max + 1)]}

\* flat trees, and trees of sibling groups that the walk enters one after
\* the other
SiblingTrees ==
    TreeMaps(0) \cup {[k \in TreeKeys |-> Object(m)] : m \in TreeMaps(0)}

WalkInputs ==
    {[status |-> "running", start |-> d, tree |-> {t},
      calling |-> {[current_depth |-> d, prefix |-> EmptyStr, json_obj |-> t]},
      stack |-> << >>, why |-> "none", result |-> {}, overflow |-> FALSE]
        : t \in ChainTrees \cup MalformedChains \cup SiblingTrees, d \in StartDepths}

WalkTop == walk.stack[Len(walk.stack)]

WalkPanic(why) == [walk EXCEPT !.status = "panicked", !.why = why, !.calling = {},
                               !.stack = << >>]

\* the call just made evaluates its guard, and starts its loop when it passes
WalkEnter ==
    /\ walk.status = "running" /\ walk.calling # {}
    /\ LET c == CHOOSE x \in walk.calling : TRUE
       IN  walk' = IF too_much_nesting(c.current_depth)
                   THEN WalkPanic("too_deep")
                   ELSE [walk EXCEPT !.calling = {},
                             !.stack = Append(@, [current_depth |-> c.current_depth,
                                                  prefix |-> c.prefix,
                                                  json_obj |-> c.json_obj,
                                                  keys |-> into_iter(c.json_obj),
                                                  actions |-> {}])]
    /\ UNCHANGED <<managers, held, last, codec, calls>>

\* the innermost call is at an entry of its map
WalkAtEntry ==
    /\ walk.status = "running" /\ walk.calling = {}
    /\ walk.stack # << >>
    /\ WalkTop.keys # << >>

WalkValue == WalkTop.json_obj[Head(WalkTop.keys)]

WalkActionValue ==
    IF WalkTop.prefix = EmptyStr THEN Head(WalkTop.keys)
    ELSE format(WalkTop.prefix, Head(WalkTop.keys))

\* Value::Object(map): deserialize_actions(current_depth + 1, &action_value, map) is called
WalkVisitGroup ==
    /\ WalkAtEntry
    /\ WalkValue.kind = "obj"
    /\ \E sum \in add_u8(WalkTop.current_depth, 1) :
          walk' = IF sum.panic
                  THEN [WalkPanic("overflow") EXCEPT !.overflow = TRUE]
                  ELSE [walk EXCEPT !.overflow = @ \/ sum.overflow,
                            !.calling = {[current_depth |-> sum.value,
                                          prefix |-> WalkActionValue,
                                          json_obj |-> WalkValue.map]}]
    /\ UNCHANGED <<managers, held, last, codec, calls>>

\* Value::Bool(val): the action is inserted when val is true
WalkVisitLeaf ==
    /\ WalkAtEntry
    /\ WalkValue.kind = "bool"
    /\ walk' = [walk EXCEPT !.stack[Len(walk.stack)] =
                    [@ EXCEPT !.keys = Tail(@),
                              !.actions = IF WalkValue.b THEN @ \cup {WalkActionValue}
                                          ELSE @]]
    /\ UNCHANGED <<managers, held, last, codec, calls>>

\* any other value: panic
WalkVisitOther ==
    /\ WalkAtEntry
    /\ WalkValue.kind = "other"
    /\ walk' = WalkPanic("malformed")
    /\ UNCHANGED <<managers, held, last, codec, calls>>

\* the innermost call has visited all entries and returns its actions, which
\* its caller unites with its own
WalkReturn ==
    /\ walk.status = "running" /\ walk.calling = {}
    /\ walk.stack # << >>
    /\ WalkTop.keys = << >>
    /\ LET n == Len(walk.stack)
       IN  walk' = IF n = 1
                   THEN [walk EXCEPT !.status = "returned", !.result = {WalkTop.actions},
                                     !.stack = << >>]
                   ELSE [walk EXCEPT !.stack =
                            [SubSeq(walk.stack, 1, n - 1) EXCEPT ![n - 1] =
                                [@ EXCEPT !.keys = Tail(@),
                                          !.actions = @ \cup WalkTop.actions]]]
    /\ UNCHANGED <<managers, held, last, codec, calls>>

(***************************************************************************)
(* Callers running at the same time on shared values: the manager          *)
(* managers[1] and the Permissions held["p"] (self) and held["q"] (other), *)
(* all behind & references. A call that checks the scopes and then works   *)
(* on the action sets reads the shared values in two steps.                *)
(***************************************************************************)
Callers == {"c1", "c2"}

SharedOps ==
    {"union", "difference", "contains", "contains_action", "to_json", "is_managed",
     "has_same_manager", "validate_perm", "perm_from_actions", "get_universe"}

\* the argument of contains_action and of perm_from_actions in these runs
SharedAction == <<"a">>

SharedSelf == CHOOSE x \in held["p"] : TRUE
SharedOther == CHOOSE x \in held["q"] : TRUE
SharedManager == managers[1]

\* the call op on the values given, as it runs alone
ApplyOp(op, self, other, manager, order) ==
    CASE op = "union" -> union(self, other)
      [] op = "difference" -> difference(self, other)
      [] op = "contains" -> contains(self, other)
      [] op = "contains_action" -> Returned(contains_action(self, SharedAction))
      [] op = "to_json" -> to_json(self, order)
      [] op = "is_managed" -> Returned(is_managed(self))
      [] op = "has_same_manager" -> Returned(has_same_manager(self, other))
      [] op = "validate_perm" -> validate_perm(manager, self)
      [] op = "perm_from_actions" -> perm_from_actions(manager, {SharedAction})
      [] op = "get_universe" -> Returned(get_universe(manager))

CallerIdle ==
    [pc |-> "idle", op |-> "none", order |-> << >>, ids |-> << >>, set |-> {},
     shares |-> FALSE, alone |-> NoOutcome, out |-> NoOutcome]

\* the universes of the shared manager
SharedUniverses == {ActionPool, {<<"b">>}}

\* the Permissions shared: built without a scope, or minted by the manager
SharedPerms(manager) ==
    {from_actions(X, {}) : X \in SUBSET ActionPool}
    \cup UNION {perm_from_actions(manager, X).ret : X \in SUBSET ActionPool}

\* the call starts: the scope fields are read
SharedCall(c) ==
    /\ calls[c].pc = "idle"
    /\ \E op \in SharedOps :
       \E order \in IF op = "to_json" THEN Orders(get_actions(SharedSelf)) ELSE {<< >>} :
          calls' = [calls EXCEPT ![c] =
                       [CallerIdle EXCEPT !.pc = "called", !.op = op, !.order = order,
                            !.ids = [self |-> SharedSelf.manager_id,
                                     other |-> SharedOther.manager_id,
                                     universe |-> SharedManager.universe.manager_id,
                                     manager |-> SharedManager.id],
                            !.alone = ApplyOp(op, SharedSelf, SharedOther, SharedManager,
                                              order)]]
    /\ UNCHANGED <<managers, held, last, codec, walk>>

\* faulty variant: union and difference change self in place
SharedFinishInPlace(c) ==
    /\ calls[c].pc = "called"
    /\ LET self == Permission(get_actions(SharedSelf), calls[c].ids.self)
           other == Permission(get_actions(SharedOther), calls[c].ids.other)
           manager == PermissionManager(
                          Permission(get_actions(SharedManager.universe),
                                     calls[c].ids.universe),
                          calls[c].ids.manager)
           out == ApplyOp(calls[c].op, self, other, manager, calls[c].order)
       IN  /\ calls' = [calls EXCEPT ![c].pc = "done", ![c].out = out]
           /\ held' = IF calls[c].op \in {"union", "difference"} /\ out.panic = "none"
                      THEN [held EXCEPT !["p"] = out.ret]
                      ELSE held
    /\ UNCHANGED <<managers, last, codec, walk>>

\* the call ends: the action sets are read and the outcome is computed; no
\* method takes &mut self, so nothing shared is written
SharedFinish(c) ==
    /\ calls[c].pc = "called"
    /\ LET self == Permission(get_actions(SharedSelf), calls[c].ids.self)
           other == Permission(get_actions(SharedOther), calls[c].ids.other)
           manager == PermissionManager(
                          Permission(get_actions(SharedManager.universe),
                                     calls[c].ids.universe),
                          calls[c].ids.manager)
       IN  calls' = [calls EXCEPT ![c].pc = "done",
                         ![c].out = ApplyOp(calls[c].op, self, other, manager,
                                            calls[c].order)]
    /\ UNCHANGED <<managers, held, last, codec, walk>>

\* faulty variant: the Permission keeps the caller's set instead of a clone
SharedFromActionsBorrowing(c) ==
    /\ calls[c].pc = "idle"
    /\ \E X \in SUBSET ActionPool :
          calls' = [calls EXCEPT ![c] =
                       [CallerIdle EXCEPT !.pc = "done", !.op = "from_actions", !.set = X,
                            !.shares = TRUE,
                            !.alone = Returned(from_actions(X, {})),
                            !.out = Returned(from_actions(X, {}))]]
    /\ UNCHANGED <<managers, held, last, codec, walk>>

\* Permission::from_actions(&set, &None) on the caller's own set: the
\* Permission holds actions.clone(), which shares nothing with the set
SharedFromActions(c) ==
    /\ calls[c].pc = "idle"
    /\ \E X \in SUBSET ActionPool :
          calls' = [calls EXCEPT ![c] =
                       [CallerIdle EXCEPT !.pc = "done", !.op = "from_actions", !.set = X,
                            !.shares = FALSE,
                            !.alone = Returned(from_actions(X, {})),
                            !.out = Returned(from_actions(X, {}))]]
    /\ UNCHANGED <<managers, held, last, codec, walk>>

\* the caller inserts an action into its own set after from_actions
SharedChangeSet(c) ==
    /\ calls[c].pc = "done" /\ calls[c].op = "from_actions"
    /\ \E x \in ActionPool \ calls[c].set :
          LET changed == calls[c].set \cup {x}
          IN  calls' = [calls EXCEPT ![c].set = changed,
                            ![c].out = IF calls[c].shares
                                       THEN Returned(Permission(changed, {}))
                                       ELSE @]
    /\ UNCHANGED <<managers, held, last, codec, walk>>

(***************************************************************************)
(* Specifications                                                          *)
(***************************************************************************)
Init ==
    /\ managers = << >>
    /\ held = [s \in Slots |-> {}]
    /\ last = NoCall
    /\ codec = CodecIdle
    /\ calls = NoCalls
    /\ walk = NoWalk

Next ==
    \/ ManagerFromActions
    \/ ManagerFromJson
    \/ GetUniverse
    \/ ValidatePerm
    \/ PermFromActions
    \/ PermFromJson
    \/ FromActions
    \/ Clone
    \/ Union
    \/ Difference
    \/ Contains
    \/ HasSameManager
    \/ CallerContinues

Spec == Init /\ [][Next]_vars

CodecInit ==
    /\ managers = << >>
    /\ held = [s \in Slots |-> {}]
    /\ last = NoCall
    /\ codec \in CodecInputs
    /\ calls = NoCalls
    /\ walk = NoWalk

CodecNext ==
    \/ Deserialize
    \/ Serialize
    \/ DeserializeSerialized
    \/ CodecFromJson
    \/ CodecToJson
    \/ CodecContainsAction

CodecSpec == CodecInit /\ [][CodecNext]_vars

SharedInit ==
    /\ \E U \in SharedUniverses :
          /\ managers = <<manager_from_actions(U, new_v4({}))>>
          /\ held \in [Slots -> {{perm} : perm \in SharedPerms(managers[1])}]
    /\ last = NoCall
    /\ codec = CodecIdle
    /\ calls = [c \in Callers |-> CallerIdle]
    /\ walk = NoWalk

SharedNext ==
    \E c \in Callers :
        \/ SharedCall(c)
        \/ SharedFinish(c)
        \/ SharedFromActions(c)
        \/ SharedChangeSet(c)

SharedSpec == SharedInit /\ [][SharedNext]_vars

WalkInit ==
    /\ managers = << >>
    /\ held = [s \in Slots |-> {}]
    /\ last = NoCall
    /\ codec = CodecIdle
    /\ calls = NoCalls
    /\ walk \in WalkInputs

WalkNext ==
    \/ WalkEnter
    \/ WalkVisitGroup
    \/ WalkVisitLeaf
    \/ WalkVisitOther
    \/ WalkReturn

\* a call that can take a step takes it
WalkSpec == WalkInit /\ [][WalkNext]_vars /\ WF_vars(WalkNext)

(***************************************************************************)
(* Properties of the manager and Permission runs (Spec)                    *)
(***************************************************************************)
HeldPerms == UNION {held[s] : s \in Slots}

LastManager == managers[last.mi]

Minted == last.op \in {"perm_from_actions", "perm_from_json"} /\ last.retPerm # {}

\* C1: every Permission the caller holds whose scope is a manager's
\* identifier has its actions within that manager's universe
\* (validate_perm returns true for it).
C1_ScopedPermWithinUniverse ==
    \A i \in DOMAIN managers : \A p \in HeldPerms :
        p.manager_id = {managers[i].id} => validate_perm(managers[i], p) = Returned(TRUE)

\* C2: perm_from_actions(X) returns the Permission with actions X and the
\* manager's identifier if and only if X is a subset of the universe's
\* actions; otherwise it fails with ActionsNotInUniverse and returns nothing.
C2_PermFromActionsIffSubset ==
    last.op = "perm_from_actions" =>
        \A X \in last.acts :
            IF X \subseteq LastManager.universe.actions
            THEN /\ last.panic = "none"
                 /\ last.retPerm = {[actions |-> X, manager_id |-> {LastManager.id}]}
            ELSE /\ last.panic = "actions_not_in_universe"
                 /\ last.retPerm = {}

\* a request mixing an action of the universe with one outside it is refused
C2_Witness ==
    /\ last.op = "perm_from_actions"
    /\ last.panic = "actions_not_in_universe"
    /\ \E X \in last.acts :
          /\ X \cap LastManager.universe.actions # {}
          /\ X \ LastManager.universe.actions # {}

\* C3: union, difference and contains on two Permissions whose scopes differ
\* fail with IncompatibleScope and return nothing, whatever the action sets.
C3_ScopeGate ==
    last.op \in {"union", "difference", "contains"} =>
        \A a \in last.a, b \in last.b :
            a.manager_id # b.manager_id =>
                /\ last.panic = "incompatible_scope"
                /\ last.retPerm = {}
                /\ last.retBool = {}

\* contains of a managed Permission on an unmanaged empty one has failed
C3_Witness ==
    /\ last.op = "contains"
    /\ last.panic = "incompatible_scope"
    /\ \E a \in last.a, b \in last.b :
          a.manager_id # {} /\ b.manager_id = {} /\ b.actions = {}

\* C4: validate_perm(p) returns true if and only if p's scope is the
\* manager's identifier and p's actions are within the universe; otherwise
\* it returns false, and it never fails.
C4_ValidatePermIff ==
    last.op = "validate_perm" =>
        \A p \in last.a :
            /\ last.panic = "none"
            /\ last.retBool = {/\ p.manager_id = {LastManager.id}
                               /\ p.actions \subseteq LastManager.universe.actions}

\* a Permission of another manager, with actions of the universe, was refused
C4_Witness ==
    /\ last.op = "validate_perm"
    /\ last.retBool = {FALSE}
    /\ \E p \in last.a :
          /\ p.manager_id # {} /\ p.manager_id # {LastManager.id}
          /\ p.actions # {} /\ p.actions \subseteq LastManager.universe.actions

\* C5: two managers never have the same identifier, and a Permission minted
\* by one manager is not valid for another manager and cannot be combined by
\* union, difference or contains with any Permission the other one mints.
C5_ManagersDisjoint ==
    /\ \A i, j \in DOMAIN managers : i # j => managers[i].id # managers[j].id
    /\ Minted =>
          \A p \in last.retPerm : \A j \in DOMAIN managers \ {last.mi} :
              /\ validate_perm(managers[j], p) = Returned(FALSE)
              /\ \A X \in SUBSET ActionPool : \A q \in perm_from_actions(managers[j], X).ret :
                    /\ union(q, p) = Panicked("incompatible_scope")
                    /\ union(p, q) = Panicked("incompatible_scope")
                    /\ difference(q, p) = Panicked("incompatible_scope")
                    /\ difference(p, q) = Panicked("incompatible_scope")
                    /\ contains(q, p) = Panicked("incompatible_scope")
                    /\ contains(p, q) = Panicked("incompatible_scope")

\* the second of two managers with the same non-empty universe has minted
C5_Witness ==
    /\ Minted
    /\ Len(managers) = 2
    /\ last.mi = 2
    /\ managers[1].universe.actions = managers[2].universe.actions
    /\ \E p \in last.retPerm : p.actions # {}

\* C6: a Permission returned by perm_from_actions or perm_from_json is
\* managed, has the manager of the universe and is valid for the manager; a
\* Permission built directly with no scope is unmanaged and valid for no
\* manager.
C6_MintedManagedDirectUnmanaged ==
    /\ Minted =>
          \A p \in last.retPerm :
              /\ is_managed(p)
              /\ has_same_manager(p, get_universe(LastManager))
              /\ validate_perm(LastManager, p) = Returned(TRUE)
    /\ (last.op = "from_actions" /\ last.id = {}) =>
          \A p \in last.retPerm :
              /\ ~is_managed(p)
              /\ \A i \in DOMAIN managers : validate_perm(managers[i], p) = Returned(FALSE)

\* an unscoped Permission was built with actions of the universe of a
\* manager whose Permissions the caller also holds
C6_Witness ==
    /\ last.op = "from_actions" /\ last.id = {}
    /\ \E i \in DOMAIN managers :
          /\ \E p \in last.retPerm :
                p.actions # {} /\ p.actions \subseteq managers[i].universe.actions
          /\ \E q \in HeldPerms : q.manager_id = {managers[i].id} /\ q.actions # {}

\* C16: has_same_manager is true if and only if the two scopes are equal,
\* two unscoped Permissions counting as equal (false for two different
\* managers and for one scoped and one unscoped); so union, difference and
\* contains on two unscoped Permissions succeed, and union and difference
\* return an unscoped Permission.
C16_SameManagerIffEqualScope ==
    \A a \in last.a, b \in last.b :
        /\ last.op = "has_same_manager" =>
              /\ last.panic = "none"
              /\ last.retBool = {\/ ~is_managed(a) /\ ~is_managed(b)
                                 \/ /\ is_managed(a) /\ is_managed(b)
                                    /\ a.manager_id = b.manager_id}
        /\ (last.op \in {"union", "difference"} /\ ~is_managed(a) /\ ~is_managed(b)) =>
              /\ last.panic = "none"
              /\ last.retPerm # {}
              /\ \A p \in last.retPerm : ~is_managed(p)
        /\ (last.op = "contains" /\ ~is_managed(a) /\ ~is_managed(b)) =>
              /\ last.panic = "none"
              /\ last.retBool # {}

\* two unscoped Permissions with different actions were found to have the
\* same manager
C16_Witness ==
    /\ last.op = "has_same_manager"
    /\ last.retBool = {TRUE}
    /\ \E a \in last.a, b \in last.b :
          ~is_managed(a) /\ ~is_managed(b) /\ a.actions # b.actions

\* C17: for two Permissions of equal scope, union returns the Permission
\* whose actions are the set union of the two action sets and whose scope is
\* the shared one.
C17_UnionIsSetUnion ==
    last.op = "union" =>
        \A a \in last.a, b \in last.b :
            a.manager_id = b.manager_id =>
                /\ last.panic = "none"
                /\ last.retPerm = {[actions |-> a.actions \cup b.actions,
                                    manager_id |-> a.manager_id]}

\* two Permissions of one manager, neither within the other, were united
C17_Witness ==
    /\ last.op = "union" /\ last.retPerm # {}
    /\ \E a \in last.a, b \in last.b :
          /\ is_managed(a)
          /\ a.actions \ b.actions # {}
          /\ b.actions \ a.actions # {}

\* C18: for two Permissions of equal scope, difference returns the
\* Permission whose actions are those of the first that are not in the
\* second and whose scope is the shared one.
C18_DifferenceIsSetDifference ==
    last.op = "difference" =>
        \A a \in last.a, b \in last.b :
            a.manager_id = b.manager_id =>
                /\ last.panic = "none"
                /\ last.retPerm = {[actions |-> a.actions \ b.actions,
                                    manager_id |-> a.manager_id]}

\* a Permission was taken from one that holds more, and something is left
C18_Witness ==
    /\ last.op = "difference" /\ last.retPerm # {}
    /\ \E a \in last.a, b \in last.b :
          /\ a.actions \cap b.actions # {}
          /\ a.actions \ b.actions # {}
          /\ \A p \in last.retPerm : p.actions # {} /\ p.actions # a.actions

\* C19: for two Permissions of equal scope, contains returns true if and
\* only if every action of the second is in the first: a Permission contains
\* itself, every Permission contains the empty one of its scope, and the
\* empty one contains no non-empty one.
C19_ContainsIffSuperset ==
    last.op = "contains" =>
        \A a \in last.a, b \in last.b :
            a.manager_id = b.manager_id =>
                /\ last.panic = "none"
                /\ last.retBool = {\A x \in b.actions : x \in a.actions}
                /\ a = b => last.retBool = {TRUE}
                /\ b.actions = {} => last.retBool = {TRUE}
                /\ (a.actions = {} /\ b.actions # {}) => last.retBool = {FALSE}

\* the empty Permission of a manager was asked whether it contains a
\* non-empty one of the same manager
C19_Witness ==
    /\ last.op = "contains"
    /\ last.retBool = {FALSE}
    /\ \E a \in last.a, b \in last.b :
          is_managed(a) /\ a.manager_id = b.manager_id /\ a.actions = {} /\ b.actions # {}

\* C20: for two Permissions of equal scope, the union contains each of the
\* two: contains on it succeeds and returns true for both.
C20_UnionContainsBoth ==
    last.op = "union" =>
        \A a \in last.a, b \in last.b :
            a.manager_id = b.manager_id =>
                /\ last.retPerm # {}
                /\ \A u \in last.retPerm :
                      /\ contains(u, a) = Returned(TRUE)
                      /\ contains(u, b) = Returned(TRUE)

\* a Permission of a manager was united with one of the same manager that
\* holds an action it lacks
C20_Witness ==
    /\ last.op = "union" /\ last.retPerm # {}
    /\ \E a \in last.a, b \in last.b :
          /\ is_managed(a) /\ a.manager_id = b.manager_id
          /\ a.actions # {}
          /\ b.actions \ a.actions # {}
          /\ a.actions \subseteq b.actions

\* C21: for two Permissions A and B of equal scope, contains on
\* A.difference(B) with B succeeds, and returns false when B has an action
\* and true when B has none.
C21_DifferenceExcludesOther ==
    last.op = "difference" =>
        \A a \in last.a, b \in last.b :
            a.manager_id = b.manager_id =>
                /\ last.retPerm # {}
                /\ \A d \in last.retPerm : contains(d, b) = Returned(b.actions = {})

\* a Permission of a manager was taken from one of the same manager that
\* holds all its actions
C21_Witness ==
    /\ last.op = "difference" /\ last.retPerm # {}
    /\ \E a \in last.a, b \in last.b :
          /\ is_managed(a) /\ a.manager_id = b.manager_id
          /\ b.actions # {}
          /\ b.actions \subseteq a.actions

\* C22: P.union(P) never fails and returns a Permission with the actions
\* and the scope of P, for scoped and unscoped P.
C22_UnionIdempotent ==
    last.op = "union" =>
        \A a \in last.a, b \in last.b :
            a = b => last.panic = "none" /\ last.retPerm = {a}

\* a non-empty Permission of a manager was united with itself
C22_Witness ==
    /\ last.op = "union"
    /\ last.a = last.b
    /\ \E a \in last.a : is_managed(a) /\ a.actions # {}
    /\ last.retPerm = last.a

\* C25: no call changes a manager: whatever get_universe, validate_perm,
\* perm_from_actions and perm_from_json calls are made, failing ones
\* included, and whatever is done with the Permissions they return, every
\* manager keeps the identifier and the universe it was constructed with.
C25_ManagerNeverChanges ==
    [][\A i \in DOMAIN managers :
          /\ i \in DOMAIN managers'
          /\ managers'[i].id = managers[i].id
          /\ managers'[i].universe = managers[i].universe]_vars

\* a manager with a non-empty universe has refused a document
C25_Witness ==
    /\ last.op = "perm_from_json"
    /\ last.panic # "none"
    /\ LastManager.universe.actions # {}
    /\ \E p \in HeldPerms : p = get_universe(LastManager)

\* C26: get_universe returns a Permission whose actions are exactly the
\* set given to PermissionManager::from_actions, or the decoding of the
\* document given to from_json (the manager then has the universe actions
\* of from_actions on the decoded set), and whose scope is the manager's own
\* identifier; validate_perm on it returns true.
C26_UniverseAsConstructed ==
    /\ \A i \in DOMAIN managers :
          /\ get_universe(managers[i]).manager_id = {managers[i].id}
          /\ validate_perm(managers[i], get_universe(managers[i])) = Returned(TRUE)
    /\ last.op = "manager_from_actions" =>
          \A U \in last.acts :
              get_universe(LastManager) = [actions |-> U, manager_id |-> {LastManager.id}]
    /\ (last.op = "manager_from_json" /\ last.panic = "none") =>
          \A doc \in last.doc :
              LET decoded == deserialize_actions(0, EmptyStr, doc.value.map)
              IN  /\ decoded.panic = "none"
                  /\ \A U \in decoded.ret :
                        /\ get_universe(LastManager).actions = U
                        /\ manager_from_actions(U, LastManager.id) = LastManager
    /\ last.op = "get_universe" =>
          /\ last.retPerm = {LastManager.universe}
          /\ \A u \in last.retPerm : validate_perm(LastManager, u) = Returned(TRUE)

\* with two managers made, a universe holding some but not all of the
\* actions was asked for
C26_Witness ==
    /\ last.op = "get_universe"
    /\ \E u \in last.retPerm : u.actions # {} /\ u.actions # ActionPool
    /\ Len(managers) = 2

(***************************************************************************)
(* Properties of the codec runs (CodecSpec)                                *)
(***************************************************************************)
\* the segments of an action: the parts between dividers
Segments(action) == split(action)

IsStrictPrefix(s, t) == Len(s) < Len(t) /\ SubSeq(t, 1, Len(s)) = s

\* no action's segments are a strict prefix of another action's segments
NoPrefixCollision(S) ==
    \A x, y \in S : ~IsStrictPrefix(Segments(x), Segments(y))

\* the paths (sequences of keys from the root) of the leaves that are `true`
RECURSIVE TrueLeafPaths(_)
TrueLeafPaths(tree) ==
    UNION {IF tree[k].kind = "obj"
           THEN {<<k>> \o path : path \in TrueLeafPaths(tree[k].map)}
           ELSE IF tree[k].kind = "bool" /\ tree[k].b THEN {<<k>>} ELSE {}
           : k \in DOMAIN tree}

\* every value is an object or a boolean
RECURSIVE WellFormed(_)
WellFormed(tree) ==
    \A k \in DOMAIN tree :
        \/ tree[k].kind = "bool"
        \/ tree[k].kind = "obj" /\ WellFormed(tree[k].map)

\* the levels below the root at which the deepest object lies
RECURSIVE GroupDepth(_)
GroupDepth(tree) ==
    LET below == {GroupDepth(tree[k].map) + 1 : k \in {j \in DOMAIN tree : tree[j].kind = "obj"}}
    IN  IF below = {} THEN 0 ELSE CHOOSE d \in below : \A e \in below : e <= d

\* every leaf is `true`, no group is empty, no key holds the divider
RECURSIVE PlainTree(_)
PlainTree(tree) ==
    \A k \in DOMAIN tree :
        /\ \A i \in 1..Len(k) : k[i] # ACTION_DIVIDER
        /\ \/ tree[k].kind = "bool" /\ tree[k].b
           \/ /\ tree[k].kind = "obj"
              /\ tree[k].map # EmptyMap
              /\ PlainTree(tree[k].map)

\* the tree with a `true` leaf at each of the paths and groups above them
RECURSIVE PathTree(_)
PathTree(paths) ==
    [k \in {Head(path) : path \in paths} |->
        IF <<k>> \in paths THEN Bool(TRUE)
        ELSE Object(PathTree({Tail(path) : path \in {q \in paths : Head(q) = k}}))]

\* C7: decoding from depth 0 the tree that serialize_actions made of a set S
\* without prefix collisions yields exactly S.
C7_RoundTripFromSet ==
    (codec.op = "deserialize" /\ codec.prev # {}) =>
        \A S \in codec.prev : NoPrefixCollision(S) => codec.out = Returned(S)

\* C8: for a tree T with only `true` leaves, no empty group and no divider
\* in its keys, from_json(T).to_json() parses to T.
C8_RoundTripFromTree ==
    codec.op = "to_json" =>
        \A doc \in codec.prev :
            PlainTree(doc.value.map) =>
                /\ codec.out.panic = "none"
                /\ \A text \in codec.out.ret : from_str(text) = {Object(doc.value.map)}

\* C9: decoding a well-formed tree within the depth limit from depth 0
\* returns exactly the strings made by joining with the divider the keys on
\* the path to each `true` leaf.
C9_DecodeJoinsPaths ==
    (codec.op = "deserialize" /\ codec.given = "tree" /\ codec.depth = 0) =>
        \A tree \in codec.tree :
            (WellFormed(tree) /\ GroupDepth(tree) < MAX_JSON_DEPTH_ALLOWED) =>
                codec.out = Returned({Join(path) : path \in TrueLeafPaths(tree)})

\* C10: for a set S without prefix collisions serialize_actions returns the
\* tree that has a `true` leaf at the segments of each action, groups at
\* their strict prefixes, and nothing else.
C10_SerializeBuildsPathTree ==
    (codec.op = "serialize" /\ codec.given = "set") =>
        \A S \in codec.acts :
            NoPrefixCollision(S) =>
                codec.out = Returned(PathTree({Segments(x) : x \in S}))

\* C11: for a set S holding two actions of which the segments of one are a
\* strict prefix of the segments of the other, serialize_actions fails with
\* ConflictingPath in whatever order the elements are visited.
C11_PrefixCollisionFails ==
    (codec.op = "serialize" /\ codec.given = "set") =>
        \A S \in codec.acts :
            ~NoPrefixCollision(S) => codec.out = Panicked("conflicting_path")

RECURSIVE OtherLevels(_)
OtherLevels(tree) ==
    UNION {IF tree[k].kind = "obj" THEN {l + 1 : l \in OtherLevels(tree[k].map)}
           ELSE IF tree[k].kind = "other" THEN {0} ELSE {}
           : k \in DOMAIN tree}

\* C13 (as stated): if a value of the tree, in a group within the depth
\* limit, is neither an object nor a boolean, deserialize_actions fails with
\* MalformedTree.
C13_MalformedFails ==
    (codec.op = "deserialize" /\ codec.given = "tree") =>
        \A tree \in codec.tree :
            (\E l \in OtherLevels(tree) : codec.depth + l < MAX_JSON_DEPTH_ALLOWED) =>
                codec.out = Panicked("malformed")

\* C13 (amended): if any value of the tree is neither an object nor a
\* boolean, deserialize_actions fails and returns no action set; the failure
\* is MalformedTree when no object of the tree lies at or beyond the depth
\* limit, and MalformedTree or TooDeep otherwise.
C13_MalformedOrTooDeepFails ==
    (codec.op = "deserialize" /\ codec.given = "tree") =>
        \A tree \in codec.tree :
            ~WellFormed(tree) =>
                /\ codec.out.ret = {}
                /\ codec.out.panic \in {"malformed", "too_deep"}
                /\ codec.depth + GroupDepth(tree) < MAX_JSON_DEPTH_ALLOWED =>
                       codec.out.panic = "malformed"

\* a tree with a `true` leaf visited before the offending value was refused
C13_Witness ==
    /\ codec.op = "deserialize" /\ codec.given = "tree"
    /\ \E tree \in codec.tree :
          /\ OtherLevels(tree) # {}
          /\ TrueLeafPaths(tree) # {}
    /\ codec.out = Panicked("malformed")

\* C14: Permission::from_json fails and returns no Permission when the text
\* is not valid JSON or its root is not an object, and then so do
\* PermissionManager::from_json and perm_from_json; when the root is an
\* object the outcome is that of decoding it from depth 0 with an empty
\* prefix, and the Permission returned has the given scope.
C14_FromJsonRootObject ==
    codec.op = "from_json" =>
        \A doc \in codec.doc :
            IF ~doc.syntax_ok \/ doc.value.kind # "obj"
            THEN /\ codec.out.panic # "none"
                 /\ codec.out.ret = {}
                 /\ \A u \in V4Uuids :
                       /\ manager_from_json(doc, u).ret = {}
                       /\ \A X \in SUBSET ActionPool :
                             perm_from_json(manager_from_actions(X, u), doc).ret = {}
            ELSE LET decoded == deserialize_actions(0, EmptyStr, doc.value.map)
                 IN  IF decoded.panic # "none"
                     THEN codec.out = Panicked(decoded.panic)
                     ELSE \A actions \in decoded.ret :
                             codec.out = Returned([actions |-> actions,
                                                   manager_id |-> codec.scope])

\* a text that is valid JSON with a root that is not an object was refused
\* for a manager's scope
C14_Witness ==
    /\ codec.op = "from_json"
    /\ codec.scope # {}
    /\ \E doc \in codec.doc : doc.syntax_ok /\ doc.value.kind # "obj"
    /\ codec.out.ret = {}

\* C15: the divider is the dot: decoding the documented tree from depth 0
\* yields "building.view", "building.meter.create", "user.edit" and
\* "simple_action", and serialize_actions rebuilds the tree from them.
C15_DividerIsDot ==
    /\ (codec.op = "deserialize" /\ codec.given = "tree" /\ codec.depth = 0
            /\ codec.tree = {DocumentedTree}) =>
          codec.out = Returned(DocumentedActions)
    /\ (codec.op = "serialize" /\ codec.acts = {DocumentedActions}) =>
          codec.out = Returned(DocumentedTree)

\* C23: contains_action(id) returns true if and only if id is an element
\* of the action set, by equality of the whole string: the empty string and
\* a group above a held action give false unless they are elements
\* themselves; it never fails, for scoped and unscoped Permissions.
C23_ContainsActionIffMember ==
    codec.op = "contains_action" =>
        \A S \in codec.acts, id \in codec.query :
            /\ codec.out.panic = "none"
            /\ codec.out.ret = {\E x \in S : x = id}

\* a scoped Permission was asked about a group above one of its actions
\* that is not an action of it, and answered false
C23_Witness ==
    /\ codec.op = "contains_action"
    /\ codec.scope # {}
    /\ codec.out = Returned(FALSE)
    /\ \E S \in codec.acts, id \in codec.query :
          /\ id # EmptyStr
          /\ \E x \in S : IsStrictPrefix(Segments(id), Segments(x))

\* the tree with the leaf at path set to the boolean v
RECURSIVE SetLeaf(_, _, _)
SetLeaf(tree, path, v) ==
    IF Len(path) = 1 THEN insert(tree, Head(path), Bool(v))
    ELSE insert(tree, Head(path), Object(SetLeaf(tree[Head(path)].map, Tail(path), v)))

\* C27: for a well-formed tree within the depth limit and a `true` leaf of
\* it at path p, whose joined string no other `true` leaf has, decoding the
\* tree with that leaf set to `false` yields the decoding of the tree
\* without the action joined from p.
C27_FalseLeafExcludes ==
    (codec.op = "deserialize" /\ codec.given = "tree" /\ codec.depth = 0) =>
        \A tree \in codec.tree :
            (WellFormed(tree) /\ GroupDepth(tree) < MAX_JSON_DEPTH_ALLOWED) =>
                \A p \in TrueLeafPaths(tree) :
                    (\A q \in TrueLeafPaths(tree) \ {p} : Join(q) # Join(p)) =>
                        /\ codec.out.panic = "none"
                        /\ \A actions \in codec.out.ret :
                              deserialize_actions(0, EmptyStr, SetLeaf(tree, p, FALSE))
                                  = Returned(actions \ {Join(p)})

\* C29: the outcome of serialize_actions on a set, the tree returned or the
\* failure, is the same in every order in which the elements are visited.
C29_SerializeOrderIndependent ==
    (codec.op = "serialize" /\ codec.given = "set") =>
        \A S \in codec.acts :
            \A order \in Orders(S) : serialize_actions(order) = codec.out

(***************************************************************************)
(* Properties of the runs on shared values (SharedSpec)                    *)
(***************************************************************************)
\* C24: no operation changes an existing Permission: no step of union,
\* difference, contains, contains_action, to_json, is_managed,
\* has_same_manager or validate_perm, failing or not, changes the action
\* set or the scope of an operand, and a Permission a caller obtained is
\* not changed by the caller changing, after from_actions, the set it was
\* built from.
C24_PermissionsNeverChange ==
    [][/\ \A s \in Slots : held'[s] = held[s]
       /\ \A c \in Callers :
             (calls[c].pc = "done" /\ calls'[c].pc = "done") =>
                 calls'[c].out = calls[c].out]_vars

\* a caller has changed its set after building a Permission from it, and
\* another has finished a union that failed
C24_Witness ==
    \E c, d \in Callers :
        /\ calls[c].op = "from_actions"
        /\ \E perm \in calls[c].out.ret : perm.actions # calls[c].set
        /\ calls[d].op = "union" /\ calls[d].pc = "done"
        /\ calls[d].out.panic = "incompatible_scope"

\* C28: callers running contains, contains_action, union, difference,
\* validate_perm, perm_from_actions and get_universe at the same time on
\* the same Permissions and manager each get, in every interleaving, the
\* outcome the call has when it runs alone, and nothing shared is written.
C28_ConcurrentCallsAsAlone ==
    /\ [](\A c \in Callers : calls[c].pc = "done" => calls[c].out = calls[c].alone)
    /\ [][managers' = managers /\ held' = held]_vars

\* one caller has finished a union that returned while the other is between
\* the two reads of a contains that returns false
C28_Witness ==
    \E c, d \in Callers :
        /\ calls[c].op = "union" /\ calls[c].pc = "done"
        /\ \E u \in calls[c].out.ret : u.actions # get_actions(SharedSelf)
        /\ calls[d].op = "contains" /\ calls[d].pc = "called"
        /\ calls[d].alone = Returned(FALSE)

(***************************************************************************)
(* Properties of the call-by-call runs (WalkSpec)                          *)
(***************************************************************************)
WalkDone == walk.status \in {"returned", "panicked"}

\* the depths of the active calls and the number of them
WalkDepthsBounded ==
    /\ \A i \in 1..Len(walk.stack) : walk.stack[i].current_depth < MAX_JSON_DEPTH_ALLOWED
    /\ \A c \in walk.calling : c.current_depth <= MAX_JSON_DEPTH_ALLOWED \/ walk.stack = << >>
    /\ ~walk.overflow
    /\ walk.stack = << >> \/ Len(walk.stack) + walk.start <= MAX_JSON_DEPTH_ALLOWED

====
